---- MODULE Spec2Model ----
(***************************************************************************)
(* A model of IndexedMap (src/src/lib.rs): a HashMap with secondary        *)
(* indices that are backfilled by add_index and maintained by insert.      *)
(*                                                                         *)
(* Option<T> is modelled as a sequence: <<>> is None and <<x>> is Some(x). *)
(* A HashMap is a function whose domain is the set of keys present.        *)
(***************************************************************************)
EXTENDS Integers, Sequences, FiniteSets, TLC

\* ---- bounds of the model -------------------------------------------------
MaxKey == 2
MaxVal == 2
MaxInserts == 3
MaxAddIndex == 2
MaxSecLen == 3

Keys == 1..MaxKey
Values == 1..MaxVal
Names == {"length", "other"}
\* the TypeId of the secondary-key type A of an index
Types == {"usize", "u8"}
FnIds == {"val", "multi", "odd_key"}
\* secondary keys a query may ask for
SecKeys == 1..(MaxVal + 1)

\* ---- HashMap / Option helpers --------------------------------------------
None == <<>>
Some(x) == <<x>>
EmptyMap == <<>>

MapGet(m, k) == IF k \in DOMAIN m THEN Some(m[k]) ELSE None

MapInsert(m, k, v) == [x \in (DOMAIN m) \cup {k} |-> IF x = k THEN v ELSE m[x]]

SeqToSet(s) == {s[i] : i \in DOMAIN s}

\* all iteration orders of a set
Orders(S) == {s \in [1..Cardinality(S) -> S] : \A i, j \in 1..Cardinality(S) : s[i] = s[j] => i = j}

\* ---- index functions (the closures handed to add_index) ------------------
\* the secondary-key type A a closure returns
FnType(f) == IF f \in {"val", "multi"} THEN "usize" ELSE "u8"

\* (key, value) -> Vec<A>
IndexFn(f, key, value) ==
    CASE f = "val" -> <<value>>
      [] f = "multi" -> <<value, value + 1, value>>
      [] f = "odd_key" -> IF value % 2 = 1 THEN <<key>> ELSE <<>>

\* ---- IndexState ----------------------------------------------------------
IndexStateNew(f, index, indexed) ==
    [ty |-> FnType(f), index_fn |-> f, index |-> index, indexed |-> indexed]

IndexStateEmpty(f) == IndexStateNew(f, EmptyMap, EmptyMap)

\* faulty variant: the bucket is replaced, not extended
EntryInsertMutNoMerge(index, a, key) == MapInsert(index, a, {key})

\* faulty variant: a key already in the bucket is taken out of it
EntryInsertMutToggle(index, a, key) ==
    MapInsert(index, a,
              IF a \in DOMAIN index /\ key \in index[a]
              THEN index[a] \ {key}
              ELSE (IF a \in DOMAIN index THEN index[a] ELSE {}) \cup {key})

\* index.entry(a).or_insert(HashSet::new()).insert(key)
EntryInsert(index, a, key) ==
    MapInsert(index, a, (IF a \in DOMAIN index THEN index[a] ELSE {}) \cup {key})

\* faulty variant: the loop ends at the first repeated secondary key
RECURSIVE ForEachSecondaryMutStopAtRepeat(_, _, _, _)
ForEachSecondaryMutStopAtRepeat(index, indexed_values, secs, key) ==
    IF secs = <<>> \/ Head(secs) \in indexed_values
    THEN [index |-> index, indexed_values |-> indexed_values]
    ELSE ForEachSecondaryMutStopAtRepeat(EntryInsert(index, Head(secs), key),
                                         indexed_values \cup {Head(secs)},
                                         Tail(secs), key)

\* faulty variant: indexed_values.insert(a) is left out
RECURSIVE ForEachSecondaryMutNoReverse(_, _, _, _)
ForEachSecondaryMutNoReverse(index, indexed_values, secs, key) ==
    IF secs = <<>>
    THEN [index |-> index, indexed_values |-> indexed_values]
    ELSE ForEachSecondaryMutNoReverse(EntryInsert(index, Head(secs), key),
                                      indexed_values, Tail(secs), key)

\* the for_each over the Vec<A> the closure returned
RECURSIVE ForEachSecondary(_, _, _, _)
ForEachSecondary(index, indexed_values, secs, key) ==
    IF secs = <<>>
    THEN [index |-> index, indexed_values |-> indexed_values]
    ELSE ForEachSecondary(EntryInsert(index, Head(secs), key),
                          indexed_values \cup {Head(secs)},
                          Tail(secs), key)

\* faulty variant: only the first secondary key of the Vec is indexed
IndexStateInsertMutFirstOnly(st, key, value) ==
    LET secs == IndexFn(st.index_fn, key, value)
        r == ForEachSecondary(st.index, {}, IF secs = <<>> THEN secs ELSE <<Head(secs)>>, key)
    IN  [st EXCEPT !.index = r.index,
                   !.indexed = MapInsert(st.indexed, key, r.indexed_values)]

\* faulty variant: reverse[key] is merged with its previous value
IndexStateInsertMutMergeReverse(st, key, value) ==
    LET r == ForEachSecondary(st.index, {}, IndexFn(st.index_fn, key, value), key)
        old == IF key \in DOMAIN st.indexed THEN st.indexed[key] ELSE {}
    IN  [st EXCEPT !.index = r.index,
                   !.indexed = MapInsert(st.indexed, key, old \cup r.indexed_values)]

\* faulty variant: the key is pruned from its old buckets before it is indexed
IndexStateInsertMutRetract(st, key, value) ==
    LET pruned == [a \in {b \in DOMAIN st.index : st.index[b] # {key}} |-> st.index[a] \ {key}]
        r == ForEachSecondary(pruned, {}, IndexFn(st.index_fn, key, value), key)
    IN  [st EXCEPT !.index = r.index,
                   !.indexed = MapInsert(st.indexed, key, r.indexed_values)]

\* IndexState::insert: fill the buckets, then replace reverse[key]
IndexStateInsert(st, key, value) ==
    LET r == ForEachSecondary(st.index, {}, IndexFn(st.index_fn, key, value), key)
    IN  [st EXCEPT !.index = r.index,
                   !.indexed = MapInsert(st.indexed, key, r.indexed_values)]

\* faulty variant: the loop ends after the first entry
BackfillMutFirstOnly(st, store, order) ==
    IF order = <<>> THEN st ELSE IndexStateInsert(st, Head(order), store[Head(order)])

\* for (key, value) in &self.inner { index_state.insert(key, value) }
RECURSIVE Backfill(_, _, _)
Backfill(st, store, order) ==
    IF order = <<>>
    THEN st
    ELSE Backfill(IndexStateInsert(st, Head(order), store[Head(order)]), store, Tail(order))

\* ---- the container ------------------------------------------------------
VARIABLES
    inner,          \* IndexedMap.inner: HashMap<K, V>
    indices,        \* IndexedMap.indices: name -> (TypeId -> boxed IndexState)
    last,           \* the call that was made last, its arguments and its result
    inserted,       \* per primary key, how many times insert was called with it
    registrations,  \* per (name, TypeId), how many times add_index was called
    snapshot,       \* per (name, TypeId), the value of inserted at its last add_index
    early,          \* per closure, an IndexState that has seen every insert
    pending         \* the insert call in progress and its position, or Idle

vars == <<inner, indices, last, inserted, registrations, snapshot, early, pending>>

\* IndexId<A>: the name and the (phantom) secondary-key type
IndexId(name, ty) == [name |-> name, ty |-> ty]

Tokens == {IndexId(n, t) : n \in Names, t \in Types}

NoCall == [op |-> "new", name |-> "", ty |-> "", index_fn |-> "", key |-> 0,
           value |-> 0, index_key |-> 0, replaced |-> None, ret |-> None]

\* no call holds &mut self
Idle == [pc |-> "idle", key |-> 0, value |-> 0, todo |-> <<>>, secs |-> <<>>,
         indexed_values |-> {}, before |-> EmptyMap]

Init ==
    /\ pending = Idle
    /\ inner = EmptyMap
    /\ indices = EmptyMap
    /\ last = NoCall
    /\ inserted = [k \in Keys |-> 0]
    /\ registrations = [tok \in Tokens |-> 0]
    /\ snapshot = [tok \in Tokens |-> [k \in Keys |-> 0]]
    /\ early = [f \in FnIds |-> IndexStateEmpty(f)]

\* the number of calls counted in count over S
RECURSIVE Total(_, _)
Total(count, S) ==
    IF S = {} THEN 0
    ELSE LET x == CHOOSE y \in S : TRUE IN count[x] + Total(count, S \ {x})

\* self.indices.values_mut().flat_map(|x| x.values_mut()).for_each(updater.insert)
FanOut(idx, key, value) ==
    [n \in DOMAIN idx |-> [t \in DOMAIN idx[n] |-> IndexStateInsert(idx[n][t], key, value)]]

\* faulty variant: only an entry that exists is written (get_mut)
InnerInsertMutUpdateOnly(store, key, value) ==
    IF key \in DOMAIN store THEN MapInsert(store, key, value) ELSE store

\* faulty variant: an existing entry is kept (entry().or_insert())
InnerInsertMutKeepOld(store, key, value) ==
    IF key \in DOMAIN store THEN store ELSE MapInsert(store, key, value)

\* self.inner.insert(key, value): the entry for key now holds value
InnerInsert(store, key, value) == MapInsert(store, key, value)

\* Deref: every read of the container is a read of inner
Deref(store) == store

Insert(key, value) ==
    /\ pending = Idle
    /\ Total(inserted, Keys) < MaxInserts
    /\ indices' = FanOut(indices, key, value)
    /\ inner' = InnerInsert(inner, key, value)
    /\ last' = [NoCall EXCEPT !.op = "insert", !.key = key, !.value = value,
                              !.ret = MapGet(inner, key)]
    /\ inserted' = [inserted EXCEPT ![key] = @ + 1]
    /\ early' = [f \in FnIds |-> IndexStateInsert(early[f], key, value)]
    /\ UNCHANGED <<registrations, snapshot, pending>>

\* faulty variant: a state already registered for the TypeId is kept (or_insert)
RegisterMutKeepFirst(idx, name, ty, st) ==
    IF name \in DOMAIN idx /\ ty \in DOMAIN idx[name]
    THEN idx
    ELSE MapInsert(idx, name,
                   MapInsert(IF name \in DOMAIN idx THEN idx[name] ELSE EmptyMap, ty, st))

\* faulty variant: the per-name map is replaced, dropping the other types
RegisterMutDropOthers(idx, name, ty, st) ==
    MapInsert(idx, name, MapInsert(EmptyMap, ty, st))

\* self.indices.entry(name).or_insert(HashMap::with_capacity(1)).insert(TypeId, state)
Register(idx, name, ty, st) ==
    MapInsert(idx, name,
              MapInsert(IF name \in DOMAIN idx THEN idx[name] ELSE EmptyMap, ty, st))

\* faulty variant: the lookup ignores the TypeId
GetIndexStateMutAnyType(idx, id) ==
    IF id.name \in DOMAIN idx /\ DOMAIN idx[id.name] # {}
    THEN Some(idx[id.name][CHOOSE t \in DOMAIN idx[id.name] : TRUE])
    ELSE None

\* Option<&IndexState<K, V, A>>; the downcast succeeds when the boxed state is one for A
GetIndexState(idx, id) ==
    IF id.name \in DOMAIN idx /\ id.ty \in DOMAIN idx[id.name]
                              /\ idx[id.name][id.ty].ty = id.ty
    THEN Some(idx[id.name][id.ty])
    ELSE None

\* faulty variant: add_index goes on filling the state already registered
FreshStateMutKeepOld(idx, name, f) ==
    IF name \in DOMAIN idx /\ FnType(f) \in DOMAIN idx[name]
    THEN [idx[name][FnType(f)] EXCEPT !.index_fn = f]
    ELSE IndexStateEmpty(f)

\* the state add_index starts filling
FreshState(idx, name, f) == IndexStateEmpty(f)

AddIndex(name, f) ==
    /\ pending = Idle
    /\ Total(registrations, Tokens) < MaxAddIndex
    /\ \E order \in Orders(DOMAIN inner) :
          indices' = Register(indices, name, FnType(f),
                              Backfill(FreshState(indices, name, f), inner, order))
    /\ last' = [NoCall EXCEPT !.op = "add_index", !.name = name, !.ty = FnType(f),
                              !.index_fn = f,
                              !.replaced = GetIndexState(indices, IndexId(name, FnType(f))),
                              !.ret = IndexId(name, FnType(f))]
    /\ registrations' = [registrations EXCEPT ![IndexId(name, FnType(f))] = @ + 1]
    /\ snapshot' = [snapshot EXCEPT ![IndexId(name, FnType(f))] = inserted]
    /\ UNCHANGED <<inner, inserted, early, pending>>

\* faulty variant: a missing index is reported as an empty forward map
GetIndexMutDefault(idx, id) ==
    IF GetIndexState(idx, id) = None THEN Some(EmptyMap) ELSE Some(GetIndexState(idx, id)[1].index)

\* Option<&HashMap<A, HashSet<K>>>
GetIndex(idx, id) ==
    IF GetIndexState(idx, id) = None THEN None ELSE Some(GetIndexState(idx, id)[1].index)

\* Option<&HashSet<K>>
KeysByIndex(idx, id, index_key) ==
    IF GetIndex(idx, id) = None THEN None ELSE MapGet(GetIndex(idx, id)[1], index_key)

\* faulty variant: the first key of the bucket is skipped
ResolveMutSkipFirst(store, keys) ==
    [k \in (keys \cap DOMAIN store) \ {CHOOSE x \in keys : TRUE} |-> store[k]]

\* keys.iter().flat_map(|k| self.inner.get(&k).map(|v| (k, v))).collect()
Resolve(store, keys) == [k \in keys \cap DOMAIN store |-> store[k]]

\* Option<HashMap<&K, &V>>
FilterByIndex(store, idx, id, index_key) ==
    IF KeysByIndex(idx, id, index_key) = None
    THEN None
    ELSE Some(Resolve(store, KeysByIndex(idx, id, index_key)[1]))

\* faulty variant: the lookup creates the per-name map it does not find
CallGetIndexMutCreates(id) ==
    /\ pending = Idle
    /\ last' = [NoCall EXCEPT !.op = "get_index", !.name = id.name, !.ty = id.ty,
                              !.ret = GetIndex(indices, id)]
    /\ indices' = IF id.name \in DOMAIN indices THEN indices
                                                ELSE MapInsert(indices, id.name, EmptyMap)
    /\ UNCHANGED <<inner, inserted, registrations, snapshot, early, pending>>

\* get_index is called
CallGetIndex(id) ==
    /\ pending = Idle
    /\ last' = [NoCall EXCEPT !.op = "get_index", !.name = id.name, !.ty = id.ty,
                              !.ret = GetIndex(indices, id)]
    /\ UNCHANGED <<inner, indices, inserted, registrations, snapshot, early, pending>>

CallKeysByIndex(id, index_key) ==
    /\ pending = Idle
    /\ last' = [NoCall EXCEPT !.op = "keys_by_index", !.name = id.name, !.ty = id.ty,
                              !.index_key = index_key,
                              !.ret = KeysByIndex(indices, id, index_key)]
    /\ UNCHANGED <<inner, indices, inserted, registrations, snapshot, early, pending>>

CallFilterByIndex(id, index_key) ==
    /\ pending = Idle
    /\ last' = [NoCall EXCEPT !.op = "filter_by_index", !.name = id.name, !.ty = id.ty,
                              !.index_key = index_key,
                              !.ret = FilterByIndex(inner, indices, id, index_key)]
    /\ UNCHANGED <<inner, indices, inserted, registrations, snapshot, early, pending>>

Next ==
    \/ \E key \in Keys, value \in Values : Insert(key, value)
    \/ \E name \in Names, f \in FnIds : AddIndex(name, f)
    \/ \E id \in Tokens : CallGetIndex(id)
    \/ \E id \in Tokens, index_key \in SecKeys : CallKeysByIndex(id, index_key)
    \/ \E id \in Tokens, index_key \in SecKeys : CallFilterByIndex(id, index_key)

Spec == Init /\ [][Next]_vars

\* the calls that take &mut self; the queries take &self and change no field
NextMut ==
    \/ \E key \in Keys, value \in Values : Insert(key, value)
    \/ \E name \in Names, f \in FnIds : AddIndex(name, f)

MutSpec == Init /\ [][NextMut]_vars

\* ---- insert, one step at a time ------------------------------------------
\* the updaters insert visits: self.indices.values_mut().flat_map(|x| x.values_mut())
Updaters(idx) == UNION {{IndexId(n, t) : t \in DOMAIN idx[n]} : n \in DOMAIN idx}

\* the call moves on to the updaters in todo, or to self.inner.insert when none is left
StartUpdater(p, todo, idx) ==
    IF todo = <<>>
    THEN [p EXCEPT !.pc = "store", !.todo = <<>>, !.secs = <<>>, !.indexed_values = {}]
    ELSE [p EXCEPT !.pc = "update", !.todo = todo, !.indexed_values = {},
                   !.secs = IndexFn(idx[Head(todo).name][Head(todo).ty].index_fn,
                                    p.key, p.value)]

\* insert is called: the iteration over the updaters starts
BeginInsert(key, value) ==
    /\ pending = Idle
    /\ Total(inserted, Keys) < MaxInserts
    /\ \E order \in Orders(Updaters(indices)) :
          pending' = StartUpdater([Idle EXCEPT !.key = key, !.value = value,
                                               !.before = indices],
                                  order, indices)
    /\ last' = [NoCall EXCEPT !.op = "insert_called", !.key = key, !.value = value]
    /\ UNCHANGED <<inner, indices, inserted, registrations, snapshot, early>>

\* one turn of the for_each in IndexState::insert: key enters the bucket of a
ForwardStep ==
    /\ pending.pc = "update"
    /\ pending.secs # <<>>
    /\ LET id == Head(pending.todo)
           a == Head(pending.secs)
       IN  /\ indices' = [indices EXCEPT ![id.name][id.ty].index =
                                             EntryInsert(@, a, pending.key)]
           /\ pending' = [pending EXCEPT !.secs = Tail(@),
                                         !.indexed_values = @ \cup {a}]
    /\ UNCHANGED <<inner, last, inserted, registrations, snapshot, early>>

\* self.indexed.insert(key, indexed_values), then the next updater
ReverseStep ==
    /\ pending.pc = "update"
    /\ pending.secs = <<>>
    /\ LET id == Head(pending.todo)
       IN  indices' = [indices EXCEPT ![id.name][id.ty].indexed =
                                         MapInsert(@, pending.key, pending.indexed_values)]
    /\ pending' = StartUpdater(pending, Tail(pending.todo), indices)
    /\ UNCHANGED <<inner, last, inserted, registrations, snapshot, early>>

\* faulty variant: the store is written while updaters are still to be visited
ReadyToStoreMutEarly(p) == p.pc # "idle"

\* the for_each statement has ended: self.inner.insert(key, value) is next
ReadyToStore(p) == p.pc = "store"

\* self.inner.insert(key, value); its result is what insert returns
StoreStep ==
    /\ ReadyToStore(pending)
    /\ inner' = InnerInsert(inner, pending.key, pending.value)
    /\ last' = [NoCall EXCEPT !.op = "insert", !.key = pending.key,
                              !.value = pending.value,
                              !.ret = MapGet(inner, pending.key)]
    /\ inserted' = [inserted EXCEPT ![pending.key] = @ + 1]
    /\ early' = [f \in FnIds |-> IndexStateInsert(early[f], pending.key, pending.value)]
    /\ pending' = Idle
    /\ UNCHANGED <<indices, registrations, snapshot>>

NextStep ==
    \/ \E key \in Keys, value \in Values : BeginInsert(key, value)
    \/ ForwardStep
    \/ ReverseStep
    \/ StoreStep
    \/ \E name \in Names, f \in FnIds : AddIndex(name, f)
    \/ \E id \in Tokens : CallGetIndex(id)
    \/ \E id \in Tokens, index_key \in SecKeys : CallKeysByIndex(id, index_key)
    \/ \E id \in Tokens, index_key \in SecKeys : CallFilterByIndex(id, index_key)

StepSpec == Init /\ [][NextStep]_vars

\* ---- vocabulary of the properties ----------------------------------------
\* the (name, TypeId) pairs that hold an Index State
Registered == {id \in Tokens : id.name \in DOMAIN indices /\ id.ty \in DOMAIN indices[id.name]}

StateOf(id) == indices[id.name][id.ty]

\* set(index_fn(key, value))
SecSet(f, key, value) == SeqToSet(IndexFn(f, key, value))

\* k is a member of the bucket forward[a]
InBucket(index, a, k) == a \in DOMAIN index /\ k \in index[a]

\* the forward map that holds exactly the current entries of store
ExactForward(f, store) ==
    [a \in UNION {SecSet(f, k, store[k]) : k \in DOMAIN store} |->
        {k \in DOMAIN store : a \in SecSet(f, k, store[k])}]

\* every current entry is in every bucket its closure names
Covers(st, store) ==
    \A k \in DOMAIN store : \A a \in SecSet(st.index_fn, k, store[k]) : InBucket(st.index, a, k)

NoKeyInsertedTwice == \A k \in Keys : inserted[k] <= 1

\* keys that were in the store when id was registered, and keys inserted since
Backfilled(id) == {k \in Keys : snapshot[id][k] > 0}
FannedOut(id) == {k \in Keys : inserted[k] > snapshot[id][k]}

IsQuery(op) == op \in {"get_index", "keys_by_index", "filter_by_index"}

\* ---- C1 ------------------------------------------------------------------
\* C1: for every registered index and every entry (k, v) of the store, k is in
\* forward[a] for every a in index_fn(k, v), whether the entry was backfilled
\* or fanned out, also when index_fn returns several secondary keys.
C1_ForwardCoversStore ==
    \A n \in DOMAIN indices : \A t \in DOMAIN indices[n] : Covers(indices[n][t], inner)

\* an index with a multi-valued closure holds one backfilled and one fanned-out key
C1_Witness ==
    \E id \in Registered :
        /\ StateOf(id).index_fn = "multi"
        /\ \E k1, k2 \in DOMAIN inner :
              /\ k1 \in Backfilled(id) \ FannedOut(id)
              /\ k2 \in FannedOut(id) \ Backfilled(id)
              /\ Cardinality(SecSet("multi", k1, inner[k1])) > 1

\* ---- C2 ------------------------------------------------------------------
\* the forward map of id equals the one of an index registered before the first
\* insert and the one of an index registered after the last insert
SameAsEarlyAndLate(id) ==
    /\ StateOf(id).index = early[StateOf(id).index_fn].index
    /\ \A order \in Orders(DOMAIN inner) :
          StateOf(id).index = Backfill(IndexStateEmpty(StateOf(id).index_fn), inner, order).index

\* C2 as stated: wherever in a sequence of inserts add_index is called once, the
\* forward map at the end is the same as with add_index first and add_index last.
C2_Original ==
    \A id \in Registered : registrations[id] = 1 => SameAsEarlyAndLate(id)

\* C2 amended: the same, for sequences of inserts with pairwise distinct
\* primary keys.
C2_BackfillEquivalence ==
    NoKeyInsertedTwice =>
        \A id \in Registered : registrations[id] = 1 => SameAsEarlyAndLate(id)

\* add_index was called once, between two inserts of distinct keys that share a bucket
C2_Witness ==
    /\ NoKeyInsertedTwice
    /\ \E id \in Registered :
          /\ registrations[id] = 1
          /\ Backfilled(id) # {}
          /\ FannedOut(id) # {}
          /\ \E a \in DOMAIN StateOf(id).index : Cardinality(StateOf(id).index[a]) > 1

\* ---- C3 ------------------------------------------------------------------
\* C3: where forward[a] exists, filter_by_index(token, a) is exactly the pairs
\* (k, current value of k) for k in forward[a], and its key set is the set
\* keys_by_index(token, a) returns.
FilterIsExact(id, a, ret) ==
    /\ ret # None
    /\ KeysByIndex(indices, id, a) = Some(StateOf(id).index[a])
    /\ DOMAIN ret[1] = StateOf(id).index[a]
    /\ \A k \in DOMAIN ret[1] : k \in DOMAIN Deref(inner) /\ ret[1][k] = Deref(inner)[k]

C3_FilterReturnsCurrentEntries ==
    /\ \A id \in Registered : \A a \in DOMAIN StateOf(id).index :
          FilterIsExact(id, a, FilterByIndex(inner, indices, id, a))
    /\ (last.op = "filter_by_index"
          /\ IndexId(last.name, last.ty) \in Registered
          /\ last.index_key \in DOMAIN StateOf(IndexId(last.name, last.ty)).index)
       => FilterIsExact(IndexId(last.name, last.ty), last.index_key, last.ret)

\* filter_by_index returned two entries, one of them overwritten before
C3_Witness ==
    /\ last.op = "filter_by_index"
    /\ last.ret # None
    /\ Cardinality(DOMAIN last.ret[1]) > 1
    /\ \E k \in DOMAIN last.ret[1] : inserted[k] > 1

\* ---- C4 ------------------------------------------------------------------
\* C4: add_index on a registered (name, type) pair discards the previous state:
\* the one state left for the pair is built by the new closure from the current
\* contents of the store only.
C4_ReRegistrationRebuilds ==
    (last.op = "add_index" /\ last.replaced # None) =>
        /\ last.ret \in Registered
        /\ StateOf(last.ret).index_fn = last.index_fn
        /\ StateOf(last.ret).index = ExactForward(last.index_fn, inner)

\* the discarded state had another closure and a stale membership
C4_Witness ==
    /\ last.op = "add_index"
    /\ last.replaced # None
    /\ last.replaced[1].index_fn # last.index_fn
    /\ last.replaced[1].index # ExactForward(last.replaced[1].index_fn, inner)
    /\ inner # EmptyMap

\* ---- C5 ------------------------------------------------------------------
\* the step re-registers id
ReRegisters(id) == last'.op = "add_index" /\ last'.ret = id

\* an insert that overwrites (k, v1) by (k, v2) replaces reverse[k] and leaves k
\* in the buckets of v1
OverwriteKeepsBuckets(id) ==
    (last'.op = "insert" /\ last'.ret # None) =>
        LET k == last'.key
            old == SecSet(StateOf(id).index_fn, k, last'.ret[1])
            new == SecSet(StateOf(id).index_fn, k, last'.value)
        IN  /\ MapGet(StateOf(id)'.indexed, k) = Some(new)
            /\ \A a \in old \ new : InBucket(StateOf(id)'.index, a, k)

\* a member of a bucket is still a member after the step
StaysInBucket(id) ==
    \A a \in DOMAIN StateOf(id).index : \A k \in StateOf(id).index[a] :
        InBucket(StateOf(id)'.index, a, k)

\* the members of a bucket are what both queries return for it
MembersAreReturned ==
    \A id \in Registered : \A a \in DOMAIN StateOf(id).index : \A k \in StateOf(id).index[a] :
        /\ KeysByIndex(indices, id, a) # None
        /\ k \in KeysByIndex(indices, id, a)[1]
        /\ FilterByIndex(inner, indices, id, a) # None
        /\ k \in DOMAIN FilterByIndex(inner, indices, id, a)[1]

\* C5: overwriting (k, v1) by (k, v2) sets reverse[k] to set(index_fn(k, v2)) and
\* removes k from no forward bucket; k stays in the buckets of v1 and is returned
\* from them by keys_by_index and filter_by_index until the index is re-registered.
C5_OverwriteLeavesStaleMembership ==
    /\ []MembersAreReturned
    /\ [][\A id \in Registered : ~ReRegisters(id) =>
              (OverwriteKeepsBuckets(id) /\ StaysInBucket(id))]_vars

\* filter_by_index returned a key from a bucket its current value does not name
C5_Witness ==
    /\ last.op = "filter_by_index"
    /\ last.ret # None
    /\ \E k \in DOMAIN last.ret[1] :
          /\ inserted[k] > 1
          /\ last.index_key \notin
                SecSet(StateOf(IndexId(last.name, last.ty)).index_fn, k, inner[k])

\* ---- C6 ------------------------------------------------------------------
\* C6: while no primary key has been inserted twice, every index holds every
\* entry in all its buckets and reverse[k] is exactly set(index_fn(k, v)).
C6_ExactWhileInsertOnce ==
    NoKeyInsertedTwice =>
        \A id \in Registered :
            /\ Covers(StateOf(id), inner)
            /\ \A k \in DOMAIN inner :
                  MapGet(StateOf(id).indexed, k)
                      = Some(SecSet(StateOf(id).index_fn, k, inner[k]))

\* two keys inserted once each, one before and one after add_index of "multi"
C6_Witness ==
    /\ NoKeyInsertedTwice
    /\ \E id \in Registered :
          /\ StateOf(id).index_fn = "multi"
          /\ Backfilled(id) # {}
          /\ FannedOut(id) # {}

\* ---- C7 ------------------------------------------------------------------
\* C7: insert(k, v) returns the previous value of k or nothing; afterwards the
\* read view holds v for k, every other entry as before, and as many entries
\* as there are distinct keys ever inserted.
InsertContract ==
    LET k == last'.key
        before == Deref(inner)
        after == Deref(inner')
    IN  /\ last'.ret = (IF inserted[k] > 0 THEN Some(before[k]) ELSE None)
        /\ MapGet(after, k) = Some(last'.value)
        /\ \A other \in Keys \ {k} : MapGet(after, other) = MapGet(before, other)
        /\ Cardinality(DOMAIN after) = Cardinality({x \in Keys : inserted'[x] > 0})

C7_InsertReturnsPreviousAndStores ==
    [][last'.op = "insert" => InsertContract]_vars

\* an insert replaced a different value while an index and another entry were present
C7_Witness ==
    /\ last.op = "insert"
    /\ last.ret # None
    /\ last.ret[1] # last.value
    /\ Cardinality(DOMAIN inner) > 1
    /\ Registered # {}

\* ---- C8 ------------------------------------------------------------------
\* the state of id was built by a closure of the type of id
ResolvesOwnType(id) ==
    GetIndexState(indices, id) # None =>
        /\ GetIndexState(indices, id)[1].ty = id.ty
        /\ FnType(GetIndexState(indices, id)[1].index_fn) = id.ty

\* registering another type under the name of id leaves the state of id alone
OtherTypeLeavesState(id) ==
    (last'.op = "add_index" /\ last'.name = id.name /\ last'.ty # id.ty) =>
        /\ id \in Registered'
        /\ StateOf(id)' = StateOf(id)

\* an insert reaches the state of id
ReceivesInsert(id) ==
    last'.op = "insert" =>
        /\ id \in Registered'
        /\ MapGet(StateOf(id)'.indexed, last'.key)
              = Some(SecSet(StateOf(id).index_fn, last'.key, last'.value))
        /\ \A a \in SecSet(StateOf(id).index_fn, last'.key, last'.value) :
              InBucket(StateOf(id)'.index, a, last'.key)

\* C8: two indices of one name and different secondary-key types are separate
\* states: registering one leaves the other as it is, a token resolves only the
\* state of its own type, and both receive every later insert.
C8_SameNameTypesCoexist ==
    [][\A id \in Registered :
            /\ ResolvesOwnType(id)'
            /\ OtherTypeLeavesState(id)
            /\ ReceivesInsert(id)]_vars

\* one name holds a state of each type and an insert has reached both
C8_Witness ==
    /\ last.op = "insert"
    /\ \E n \in Names :
          /\ \A t \in Types : IndexId(n, t) \in Registered
          /\ \A t \in Types : last.key \in FannedOut(IndexId(n, t))
          /\ \A t \in Types : \E a \in DOMAIN StateOf(IndexId(n, t)).index :
                last.key \in StateOf(IndexId(n, t)).index[a]

\* ---- C9 ------------------------------------------------------------------
\* tokens of the name just registered whose type is another, registered earlier
EarlierTokensOfOtherType ==
    {id \in Tokens : /\ last.op = "add_index"
                     /\ id.name = last.name
                     /\ id.ty # last.ty
                     /\ registrations[id] > 0}

\* C9 as stated: after add_index(name, f) of type A returned t and add_index was
\* called with the same name and another type B, get_index(t) returns empty.
C9_Original ==
    \A id \in EarlierTokensOfOtherType : GetIndex(indices, id) = None

\* C9 amended: in that case get_index(t) still returns the forward map of the
\* (name, A) state, which holds every current entry.
C9_TokenSurvivesOtherType ==
    \A id \in EarlierTokensOfOtherType :
        /\ GetIndex(indices, id) # None
        /\ FnType(StateOf(id).index_fn) = id.ty
        /\ GetIndex(indices, id)[1] = StateOf(id).index
        /\ Covers([index_fn |-> StateOf(id).index_fn, index |-> GetIndex(indices, id)[1]], inner)

\* type B was registered under a name whose type-A index holds an entry
C9_Witness ==
    \E id \in EarlierTokensOfOtherType :
        /\ id \in Registered
        /\ StateOf(id).index # EmptyMap

\* ---- C10 -----------------------------------------------------------------
\* absence is reported as None, presence is never an empty collection
AbsenceIsEmpty(id, a) ==
    /\ registrations[id] = 0 =>
          /\ GetIndex(indices, id) = None
          /\ KeysByIndex(indices, id, a) = None
          /\ FilterByIndex(inner, indices, id, a) = None
    /\ (registrations[id] > 0 /\ a \notin DOMAIN StateOf(id).index) =>
          /\ KeysByIndex(indices, id, a) = None
          /\ FilterByIndex(inner, indices, id, a) = None
    /\ KeysByIndex(indices, id, a) # None => KeysByIndex(indices, id, a)[1] # {}
    /\ FilterByIndex(inner, indices, id, a) # None =>
          FilterByIndex(inner, indices, id, a)[1] # EmptyMap

\* what the query of this step returned
QueryResult ==
    LET id == IndexId(last'.name, last'.ty)
    IN  CASE last'.op = "get_index" -> GetIndex(indices, id)
          [] last'.op = "keys_by_index" -> KeysByIndex(indices, id, last'.index_key)
          [] last'.op = "filter_by_index" -> FilterByIndex(inner, indices, id, last'.index_key)

\* C10: a query of an unregistered (name, type) pair returns empty, keys_by_index
\* and filter_by_index also return empty for a secondary key without bucket, a
\* present result is non-empty, and a query changes nothing in the container.
C10_QueriesReportAbsence ==
    /\ [](\A id \in Tokens, a \in SecKeys : AbsenceIsEmpty(id, a))
    /\ [][IsQuery(last'.op) =>
              /\ inner' = inner
              /\ indices' = indices
              /\ last'.ret = QueryResult]_vars

\* filter_by_index found no bucket in an index that holds other buckets
C10_Witness ==
    /\ last.op = "filter_by_index"
    /\ last.ret = None
    /\ IndexId(last.name, last.ty) \in Registered
    /\ StateOf(IndexId(last.name, last.ty)).index # EmptyMap

\* ---- C11 -----------------------------------------------------------------
\* C11: after every completed insert or add_index, every member of every
\* forward bucket of every registered index is a key of the store, so the
\* resolution in filter_by_index drops no key.
C11_BucketMembersAreStored ==
    \A id \in Registered : \A a \in DOMAIN StateOf(id).index :
        /\ StateOf(id).index[a] \subseteq DOMAIN inner
        /\ DOMAIN Resolve(inner, StateOf(id).index[a]) = StateOf(id).index[a]

\* an insert has just put a second key into a bucket of a registered index
C11_Witness ==
    /\ last.op = "insert"
    /\ \E id \in Registered : \E a \in DOMAIN StateOf(id).index :
          /\ last.key \in StateOf(id).index[a]
          /\ Cardinality(StateOf(id).index[a]) > 1

\* ---- C12 -----------------------------------------------------------------
\* the step is the one on which insert returns
InsertReturns == pending # Idle /\ pending' = Idle

\* the updater id has taken in the entry of the call in progress
Updated(id) ==
    /\ \A a \in SecSet(StateOf(id).index_fn, pending.key, pending.value) :
          InBucket(StateOf(id).index, a, pending.key)
    /\ MapGet(StateOf(id).indexed, pending.key)
          = Some(SecSet(StateOf(id).index_fn, pending.key, pending.value))

\* the store is written on the last step of insert, after every updater
StoreWriteIsLast ==
    /\ inner' # inner => InsertReturns
    /\ InsertReturns =>
          /\ \A id \in Registered : Updated(id)
          /\ indices = FanOut(pending.before, pending.key, pending.value)
          /\ indices' = indices
          /\ inner' = MapInsert(inner, pending.key, pending.value)

\* within one updater the reverse map is written after the forward buckets
ReverseAfterForward ==
    \A id \in Registered :
        (pending # Idle /\ StateOf(id)'.indexed # StateOf(id).indexed) =>
            \A a \in SecSet(StateOf(id).index_fn, pending.key, pending.value) :
                InBucket(StateOf(id).index, a, pending.key)

\* a query is a step of its own, taken when no insert is in progress
NoReadInsideInsert ==
    (IsQuery(last'.op) /\ last' # last) => (pending = Idle /\ pending' = Idle)

\* C12: within one insert every Index State is updated before the store is
\* written: the store write is the last step, the reverse map of an index
\* follows its forward buckets, and no query runs between the steps.
C12_IndicesBeforeStore ==
    [][StoreWriteIsLast /\ ReverseAfterForward /\ NoReadInsideInsert]_vars

\* mid-insert: a new key is in one bucket of index_fn(k, v) but not yet in
\* another one, nor in the store
C12_Witness ==
    /\ pending.pc = "update"
    /\ pending.key \notin DOMAIN inner
    /\ LET id == Head(pending.todo)
           secs == SecSet(StateOf(id).index_fn, pending.key, pending.value)
       IN  /\ \E a \in secs : InBucket(StateOf(id).index, a, pending.key)
           /\ \E a \in secs : ~InBucket(StateOf(id).index, a, pending.key)

\* ---- C13 -----------------------------------------------------------------
\* a pair that resolves keeps resolving, to the closure of its latest add_index
StaysResolved(id) ==
    GetIndexState(indices, id) # None =>
        /\ GetIndexState(indices', id) # None
        /\ GetIndexState(indices', id)[1].index_fn =
              (IF ReRegisters(id) THEN last'.index_fn
                                  ELSE GetIndexState(indices, id)[1].index_fn)

\* C13: once add_index has registered a (name, type) pair, get_index for the
\* pair is never empty again, and any token of the pair resolves to the state
\* built by the most recent registration of the pair.
C13_RegisteredPairStaysPresent ==
    /\ [](\A id \in Tokens : registrations[id] > 0 => GetIndex(indices, id) # None)
    /\ [][\A id \in Tokens : StaysResolved(id)]_vars

\* a pair was registered a second time with another closure and resolves to it
C13_Witness ==
    /\ last.op = "add_index"
    /\ registrations[last.ret] > 1
    /\ last.replaced # None
    /\ last.replaced[1].index_fn # last.index_fn
    /\ GetIndexState(indices, last.ret) # None
    /\ GetIndexState(indices, last.ret)[1].index_fn = last.index_fn

\* ---- C14 -----------------------------------------------------------------
\* the step removes a bucket of id, or a key from one of its buckets
Shrinks(id) ==
    ~ /\ id \in Registered'
      /\ \A a \in DOMAIN StateOf(id).index :
            /\ a \in DOMAIN StateOf(id)'.index
            /\ StateOf(id).index[a] \subseteq StateOf(id)'.index[a]

\* C14: insert retracts nothing: across an insert every bucket of every index
\* is still there with all its keys, and the key set of the store only grows;
\* only add_index on the same (name, type) pair can shrink a forward map.
C14_InsertNeverRetracts ==
    [][/\ DOMAIN inner \subseteq DOMAIN inner'
       /\ last'.op = "insert" => \A id \in Registered : ~Shrinks(id)
       /\ \A id \in Registered : Shrinks(id) => ReRegisters(id)]_vars

\* an overwriting insert left the key in a bucket its new value does not name
C14_Witness ==
    /\ last.op = "insert"
    /\ last.ret # None
    /\ \E id \in Registered : \E a \in DOMAIN StateOf(id).index :
          /\ last.key \in StateOf(id).index[a]
          /\ a \notin SecSet(StateOf(id).index_fn, last.key, last.value)

\* ---- C15 -----------------------------------------------------------------
\* the Vec<A> results tried: every sequence of up to MaxSecLen secondary keys
SecSeqs == UNION {[1..n -> SecKeys] : n \in 0..MaxSecLen}

\* index with key added once to the bucket of every member of the set S
WithMemberships(index, S, key) ==
    [a \in (DOMAIN index) \cup S |->
        (IF a \in DOMAIN index THEN index[a] ELSE {}) \cup (IF a \in S THEN {key} ELSE {})]

\* C15: a Vec with repeated secondary keys, or in another order, gives the same
\* forward and reverse maps as its set of distinct keys: the key is one member
\* of each bucket, reverse[key] is the set of distinct keys, and an empty Vec
\* adds the key to no bucket and sets reverse[key] to the empty set.
C15_DuplicatesAndOrderIrrelevant ==
    \A id \in Registered : \A key \in Keys :
        /\ \A secs \in SecSeqs :
              LET r == ForEachSecondary(StateOf(id).index, {}, secs, key)
              IN  /\ r.indexed_values = SeqToSet(secs)
                  /\ r.index = WithMemberships(StateOf(id).index, SeqToSet(secs), key)
        /\ \A value \in Values :
              LET S == SecSet(StateOf(id).index_fn, key, value)
                  st == IndexStateInsert(StateOf(id), key, value)
              IN  /\ st.index = WithMemberships(StateOf(id).index, S, key)
                  /\ st.indexed = MapInsert(StateOf(id).indexed, key, S)
                  /\ S = {} => (st.index = StateOf(id).index /\ st.indexed[key] = {})

\* one insert reached a closure that repeats a key and one that returned no key
C15_Witness ==
    /\ last.op = "insert"
    /\ \E id \in Registered :
          /\ StateOf(id).index_fn = "multi"
          /\ last.key \in FannedOut(id)
          /\ Len(IndexFn("multi", last.key, last.value))
                > Cardinality(SecSet("multi", last.key, last.value))
    /\ \E id \in Registered :
          /\ StateOf(id).index_fn = "odd_key"
          /\ last.key \in FannedOut(id)
          /\ IndexFn("odd_key", last.key, last.value) = <<>>
          /\ StateOf(id).indexed[last.key] = {}

\* ---- C16 -----------------------------------------------------------------
\* k was in the index of id and has been inserted again since id was registered
OverwrittenSince(id, k) == inserted[k] > snapshot[id][k] /\ inserted[k] >= 2

\* C16: in every reachable state the reverse map of every index has the keys of
\* the store, reverse[k] is set(index_fn(k, current value)), forward contains
\* the inverse of reverse, and a membership beyond that belongs to a key that
\* was overwritten since the index was last registered.
C16_ReverseMapIsCurrent ==
    \A id \in Registered :
        /\ DOMAIN StateOf(id).indexed = DOMAIN inner
        /\ \A k \in DOMAIN inner :
              /\ MapGet(StateOf(id).indexed, k)
                    = Some(SecSet(StateOf(id).index_fn, k, inner[k]))
              /\ \A a \in SecSet(StateOf(id).index_fn, k, inner[k]) :
                    InBucket(StateOf(id).index, a, k)
        /\ \A a \in DOMAIN StateOf(id).index : \A k \in StateOf(id).index[a] :
              \/ k \in DOMAIN StateOf(id).indexed /\ a \in StateOf(id).indexed[k]
              \/ OverwrittenSince(id, k)

\* after an overwrite a key sits in a bucket that reverse[k] no longer names
C16_Witness ==
    \E id \in Registered : \E a \in DOMAIN StateOf(id).index : \E k \in StateOf(id).index[a] :
        /\ OverwrittenSince(id, k)
        /\ a \notin StateOf(id).indexed[k]
        /\ StateOf(id).indexed[k] # {}

\* ---- C17 -----------------------------------------------------------------
\* the keys of store whose entry the closure f files under a
KeysUnder(f, store, a) == {k \in DOMAIN store : a \in SecSet(f, k, store[k])}

\* C17: while no key has been overwritten since an index was last registered,
\* its forward map is exact: forward[a] is precisely the set of keys whose
\* current entry names a, a bucket exists exactly when that set is not empty;
\* and in every reachable state no bucket is empty.
C17_ForwardExactWithoutOverwrite ==
    \A id \in Registered :
        /\ \A a \in DOMAIN StateOf(id).index : StateOf(id).index[a] # {}
        /\ (\A k \in Keys : ~OverwrittenSince(id, k)) =>
              /\ StateOf(id).index = ExactForward(StateOf(id).index_fn, inner)
              /\ \A a \in SecKeys \cup Keys \cup DOMAIN StateOf(id).index :
                    /\ a \in DOMAIN StateOf(id).index
                          <=> KeysUnder(StateOf(id).index_fn, inner, a) # {}
                    /\ a \in DOMAIN StateOf(id).index
                          => StateOf(id).index[a] = KeysUnder(StateOf(id).index_fn, inner, a)

\* an index registered after an overwrite holds a backfilled and a fanned-out key
C17_Witness ==
    \E id \in Registered :
        /\ \A k \in Keys : ~OverwrittenSince(id, k)
        /\ \E k \in Backfilled(id) : inserted[k] > 1
        /\ FannedOut(id) # {}
        /\ Cardinality(DOMAIN StateOf(id).index) > 1

\* ---- C18 -----------------------------------------------------------------
\* add_index touches the one (name, type) pair it registers
AddIndexFrame ==
    last'.op = "add_index" =>
        /\ Deref(inner') = Deref(inner)
        /\ Registered' = Registered \cup {last'.ret}
        /\ \A id \in Registered \ {last'.ret} : StateOf(id)' = StateOf(id)

\* a query touches nothing
QueryFrame ==
    IsQuery(last'.op) => (Deref(inner') = Deref(inner) /\ indices' = indices)

\* C18: add_index for a (name, type) pair leaves the store and the Index State
\* of every other pair unchanged; get_index, keys_by_index, filter_by_index and
\* the reads through Deref change neither the store nor any Index State.
C18_FrameOfAddIndexAndQueries ==
    [][AddIndexFrame /\ QueryFrame]_vars

\* add_index ran while another pair held a filled index
C18_Witness ==
    /\ last.op = "add_index"
    /\ inner # EmptyMap
    /\ \E id \in Registered \ {last.ret} : StateOf(id).index # EmptyMap

\* ---- C19 -----------------------------------------------------------------
\* the step is an insert of the pair the previous call inserted
RepeatsInsert ==
    /\ last.op = "insert"
    /\ last'.op = "insert"
    /\ last'.key = last.key
    /\ last'.value = last.value
    /\ inserted' # inserted

\* the step is an add_index with the name, type and closure of the previous call
RepeatsAddIndex ==
    /\ last.op = "add_index"
    /\ last'.op = "add_index"
    /\ last'.ret = last.ret
    /\ last'.index_fn = last.index_fn
    /\ registrations' # registrations

\* C19: inserting the same (k, v) again right after the first insert leaves the
\* store and every forward and reverse map as they were and returns v; calling
\* add_index twice in a row with the same name, type and closure gives the
\* Index State one call gives.
C19_RepeatedCallIsIdempotent ==
    [][/\ RepeatsInsert =>
             /\ Deref(inner') = Deref(inner)
             /\ indices' = indices
             /\ last'.ret = Some(last.value)
       /\ RepeatsAddIndex =>
             /\ indices' = indices
             /\ inner' = inner]_vars

\* add_index, then the same pair inserted twice: the three calls made so far
C19_Witness ==
    /\ last.op = "insert"
    /\ last.ret = Some(last.value)
    /\ inserted[last.key] = 2
    /\ Total(inserted, Keys) = 2
    /\ Total(registrations, Tokens) = 1
    /\ \E id \in Registered :
          /\ snapshot[id][last.key] = 0
          /\ Cardinality(DOMAIN StateOf(id).index) > 1

====
